---- MODULE Spec2Model ----
(***************************************************************************)
(* The image-harvesting backend of scrappback (src/server.js, the version  *)
(* with multi-page crawls and favourite-preserving deletion, lines 195 to  *)
(* 430): the lowdb document, the in-memory cache, the clock and the        *)
(* requests in flight, each handler cut at the awaits where Node may run   *)
(* another handler.                                                        *)
(***************************************************************************)
EXTENDS Integers, Sequences, FiniteSets, Bags, TLC

VARIABLES
    file,    \* db.json on disk: [exists, doc]
    data,    \* db.data, the one in-memory document all handlers share
    cache,   \* the Map `cache`: key -> [data, timestamp]
    now,     \* Date.now()
    crawls,  \* the crawls in flight that have not called db.write() yet (a bag)
    wcur,    \* the write lowdb's file writer is performing, and who awaits it
    wnext,   \* the write it holds back until the current one is done
    uuids,   \* how many crypto.randomUUID() values were drawn
    res,     \* the response the last step sent, if it sent one
    puts,    \* history: key -> [at, deleted] of the last cache.set of the key
    page     \* the page scrapeUrl works on, when its steps are followed one by one

server == <<file, data, cache, now, crawls, wcur, wnext, uuids, res, puts>>

vars == <<file, data, cache, now, crawls, wcur, wnext, uuids, res, puts, page>>

-----------------------------------------------------------------------------
(* Bounds of the model *)

MaxInFlight == 2   \* requests in flight at once
MaxQueued == 3     \* requests in flight when two of them wait for one held-back write
MaxSources == 2    \* crawls admitted (each may draw one UUID)
MaxImages == 3     \* img elements of a page whose filtering is followed alone
MaxFavorites == 1  \* ids in the Favorite set

-----------------------------------------------------------------------------
(* Values *)

CACHE_DURATION_MS == 15 * 60 * 1000

MinDimension == 100

\* The instants the clock is read at: a start, a later instant, and the last
\* millisecond before and the first millisecond at which an entry stored at
\* that later instant is expired.
ClockPoints == {0, CACHE_DURATION_MS, 2 * CACHE_DURATION_MS - 1, 2 * CACHE_DURATION_MS}

Null == "<null>"

DefaultData == [sources |-> << >>, images |-> << >>, favorites |-> << >>]

NoSource == [id |-> "", url |-> "", name |-> ""]

NoBundle == [newSource |-> NoSource, newImages |-> << >>]

NoBody == [url |-> "", urlPattern |-> "", startPage |-> 0, endPage |-> 0,
           id |-> "", imageId |-> "", favorite |-> FALSE]

NoSnap == [exists |-> FALSE, doc |-> DefaultData]

\* A request in flight: its handler's position and locals.
NoReq == [op |-> "none", pc |-> "none", body |-> NoBody, key |-> "", started |-> 0,
          i |-> 0, acc |-> << >>, rendered |-> << >>,
          bundle |-> NoBundle, sourceToRemove |-> NoSource,
          before |-> DefaultData]   \* history: the catalog when the crawl began

\* The page of scrapeUrl before the first poll of the scroll loop, with the
\* img elements it has and what the second evaluate returns of them; polls,
\* prev and height are history: the polls made, and the heights the last poll
\* compared.
NoPage == [lastHeight |-> 0, scrolls |-> 0, done |-> FALSE,
           polls |-> 0, prev |-> 0, height |-> 0,
           images |-> << >>, uniqueUrls |-> << >>, returned |-> FALSE]

NoWrite == [busy |-> FALSE, doc |-> DefaultData, waiters |-> << >>]

Resp(op, status) ==
    [op |-> op, status |-> status, bundle |-> NoBundle, favorites |-> << >>,
     sources |-> << >>, images |-> << >>]

NoResp == Resp("none", 0)

SeqToSet(s) == {s[k] : k \in 1..Len(s)}

-----------------------------------------------------------------------------
(* Inputs *)

SingleUrl == "https://a.test/g"

PagePattern == "https://a.test/p/{page}"

\* A single URL that reads like a page pattern followed by a page range.
KeyLikeUrl == "https://a.test/p/{page}-1-2"

\* The request bodies of POST /api/images/scrape: a single URL, a page range,
\* an empty page range, a pattern whose startPage is 0, and no target at all.
CrawlBodies ==
    { [NoBody EXCEPT !.url = SingleUrl],
      [NoBody EXCEPT !.urlPattern = PagePattern, !.startPage = 1, !.endPage = 2],
      [NoBody EXCEPT !.urlPattern = PagePattern, !.startPage = 2, !.endPage = 1],
      [NoBody EXCEPT !.urlPattern = PagePattern, !.startPage = 0, !.endPage = 2] }

Img(src, w, h) == [src |-> src, naturalWidth |-> w, naturalHeight |-> h]

\* What the Renderer may show for a page: only images at the threshold in one
\* dimension; one qualifying URL twice; two qualifying URLs and an image that
\* is too low.
Doms ==
    { << Img("i1", 100, 100), Img("i2", 101, 100) >>,
      << Img("i1", 101, 101), Img("i1", 101, 101) >>,
      << Img("i2", 101, 101), Img("i3", 101, 100), Img("i1", 101, 101) >> }

\* The inputs of the runs with requests in flight together: one target of each
\* kind, and a page that shows one qualifying URL.
ConcurrentBodies ==
    { [NoBody EXCEPT !.url = SingleUrl],
      [NoBody EXCEPT !.urlPattern = PagePattern, !.startPage = 2, !.endPage = 2] }

\* Targets whose fingerprints are compared: two single URLs and a page range.
FingerprintBodies ==
    { [NoBody EXCEPT !.url = SingleUrl],
      [NoBody EXCEPT !.url = KeyLikeUrl],
      [NoBody EXCEPT !.urlPattern = PagePattern, !.startPage = 1, !.endPage = 2] }

ConcurrentDoms == { << Img("i1", 101, 101), Img("i2", 100, 100) >> }

ConcurrentClockPoints == {0, CACHE_DURATION_MS}

UUID(n) == "uuid-" \o ToString(n)

NoSuchId == "uuid-none"

SourceIds == {UUID(n) : n \in 1..MaxSources} \cup {NoSuchId}

-----------------------------------------------------------------------------
(* Pure functions of the handlers *)

TruthyStr(x) == x # ""

TruthyNum(x) == x # 0

IsMultiPage(body) ==
    TruthyStr(body.urlPattern) /\ TruthyNum(body.startPage) /\ TruthyNum(body.endPage)

CacheKey(body) ==
    IF IsMultiPage(body)
    THEN body.urlPattern \o "-" \o ToString(body.startPage) \o "-" \o ToString(body.endPage)
    ELSE body.url

\* The comparison with the lifetime made inclusive.
CacheValidInclusive(key) ==
    key \in DOMAIN cache /\ now - cache[key].timestamp <= CACHE_DURATION_MS

\* The lifetime written in seconds and compared with milliseconds.
CacheValidSeconds(key) ==
    key \in DOMAIN cache /\ now - cache[key].timestamp < 15 * 60

CacheValid(key) ==
    key \in DOMAIN cache /\ now - cache[key].timestamp < CACHE_DURATION_MS

\* String.prototype.replace('{page}', n) on the URLs of the model.
ReplacePage(u, n) ==
    IF u = PagePattern THEN "https://a.test/p/" \o ToString(n)
    ELSE IF u = KeyLikeUrl THEN "https://a.test/p/" \o ToString(n) \o "-1-2"
    ELSE u

\* new URL(u).hostname on the URLs of the model.
Hostname(u) ==
    IF u \in {SingleUrl, KeyLikeUrl} \cup {ReplacePage(PagePattern, n) : n \in 0..3}
                                        \cup {ReplacePage(KeyLikeUrl, n) : n \in 0..3}
    THEN "a.test" ELSE "invalid"

\* The threshold made inclusive.
QualifiesAtLeast(img) ==
    img.naturalWidth >= MinDimension /\ img.naturalHeight >= MinDimension

\* The two dimensions joined by || instead of &&.
QualifiesEither(img) ==
    img.naturalWidth > MinDimension \/ img.naturalHeight > MinDimension

Qualifies(img) ==
    img.naturalWidth > MinDimension /\ img.naturalHeight > MinDimension

\* The urls pushed on an array, with no test of what it has.
RECURSIVE PushAll(_, _)
PushAll(set, urls) ==
    IF urls = << >> THEN set ELSE PushAll(Append(set, Head(urls)), Tail(urls))

RECURSIVE AddAll(_, _)
\* Set.prototype.add of each element of urls, in order: insertion order kept,
\* an element already present is not added again.
AddAll(set, urls) ==
    IF urls = << >> THEN set
    ELSE AddAll(IF Head(urls) \in SeqToSet(set) THEN set ELSE Append(set, Head(urls)),
                Tail(urls))

QualityFilter(dom) ==
    AddAll(<< >>, [k \in 1..Len(SelectSeq(dom, Qualifies)) |->
                        SelectSeq(dom, Qualifies)[k].src])

ImageId(t, k) == "scrape_" \o ToString(t) \o "_" \o ToString(k)

NewSource(body, n) ==
    LET sourceUrl == IF IsMultiPage(body) THEN body.urlPattern ELSE body.url
    IN  [id |-> UUID(n), url |-> sourceUrl, name |-> Hostname(ReplacePage(sourceUrl, 1))]

\* The images linked to the source by its name instead of its id.
NewImagesByName(urls, newSource, t) ==
    [k \in 1..Len(urls) |->
        [id |-> ImageId(t, k - 1), src |-> urls[k], alt |-> "Imagem de " \o newSource.name,
         source |-> newSource.name, author |-> "WebScraper", sourceId |-> newSource.name]]

NewImages(urls, newSource, t) ==
    [k \in 1..Len(urls) |->
        [id |-> ImageId(t, k - 1),
         src |-> urls[k],
         alt |-> "Imagem de " \o newSource.name,
         source |-> newSource.name,
         author |-> "WebScraper",
         sourceId |-> newSource.id]]

\* The archived copy made without clearing the link to the source.
ArchivedImageLinked(image) ==
    [image EXCEPT !.source = "(Arquivado) " \o image.source]

ArchivedImage(image) ==
    [image EXCEPT !.sourceId = Null, !.source = "(Arquivado) " \o image.source]

RECURSIVE UpdatedImages(_, _, _)
\* The loop of deleteSource over db.data.images.
UpdatedImages(images, id, favoriteSet) ==
    IF images = << >> THEN << >>
    ELSE LET image == Head(images)
             rest == UpdatedImages(Tail(images), id, favoriteSet)
         IN  IF image.sourceId = id
             THEN IF image.id \in favoriteSet
                  THEN << ArchivedImage(image) >> \o rest
                  ELSE rest
             ELSE << image >> \o rest

\* The callback of find assigning instead of comparing: the first source is
\* found whatever the id.
FindSourceFirst(sources, id) ==
    IF sources = << >> THEN NoSource ELSE Head(sources)

FindSource(sources, id) ==
    LET found == SelectSeq(sources, LAMBDA s : s.id = id)
    IN  IF found = << >> THEN NoSource ELSE Head(found)

\* The hard delete of lines 36-50: every image of the source goes, and the
\* favorites that named one of them with it.
HardDeleteDoc(base, id) ==
    LET removed == {base.images[k].id :
                        k \in {j \in 1..Len(base.images) : base.images[j].sourceId = id}}
    IN  [sources |-> SelectSeq(base.sources, LAMBDA source : source.id # id),
         images |-> SelectSeq(base.images, LAMBDA image : image.sourceId # id),
         favorites |-> SelectSeq(base.favorites, LAMBDA favId : favId \notin removed)]

\* The source removed and its images left as they are.
DeleteDocSourcesOnly(base, id) ==
    [sources |-> SelectSeq(base.sources, LAMBDA source : source.id # id),
     images |-> base.images,
     favorites |-> base.favorites]

\* The document deleteSource leaves in db.data, from the document db.read()
\* gave it.
DeleteDoc(base, id) ==
    [sources |-> SelectSeq(base.sources, LAMBDA source : source.id # id),
     images |-> UpdatedImages(base.images, id, SeqToSet(base.favorites)),
     favorites |-> base.favorites]

\* The favorite toggled, whatever the request asks for.
ToggleFavorites(favorites, imageId, favorite) ==
    IF imageId \in SeqToSet(favorites)
    THEN SelectSeq(favorites, LAMBDA f : f # imageId)
    ELSE Append(favorites, imageId)

SetFavorites(favorites, imageId, favorite) ==
    IF favorite
    THEN IF imageId \in SeqToSet(favorites) THEN favorites ELSE Append(favorites, imageId)
    ELSE SelectSeq(favorites, LAMBDA f : f # imageId)

-----------------------------------------------------------------------------
(* The store *)

\* What a handler holds in db.data once its `await db.read()` is over: the
\* file's content, or db.data as it stands when there is no file. The file is
\* read at the instant the handler resumes.
\* The handler going on from db.data, with no db.read().
BaseInMemory == data

Base == IF file.exists THEN file.doc ELSE data

\* db.write(): the document is serialised at the call; the writer performs one
\* write at a time, holds back the latest document given meanwhile, and
\* resolves every caller of a write once that write is on disk.
Enqueue(doc, r) ==
    IF ~wcur.busy
    THEN /\ wcur' = [busy |-> TRUE, doc |-> doc, waiters |-> << r >>]
         /\ wnext' = wnext
    ELSE /\ wcur' = wcur
         /\ wnext' = [busy |-> TRUE, doc |-> doc, waiters |-> Append(wnext.waiters, r)]

InFlight == BagCardinality(crawls) + Len(wcur.waiters) + Len(wnext.waiters)

Replace(bag, r, r2) == (bag (-) SetToBag({r})) (+) SetToBag({r2})

-----------------------------------------------------------------------------
Init ==
    /\ file = NoSnap
    /\ data = DefaultData
    /\ cache = << >>
    /\ now = 0
    /\ crawls = EmptyBag
    /\ wcur = NoWrite
    /\ wnext = NoWrite
    /\ uuids = 0
    /\ res = NoResp
    /\ puts = << >>
    /\ page = NoPage

Tick(points) ==
    /\ \E t \in points : t > now /\ now' = t
    /\ res' = NoResp
    /\ UNCHANGED <<file, data, cache, crawls, wcur, wnext, uuids, puts>>

(* POST /api/images/scrape *)

CrawlInvalid(body) ==
    /\ ~TruthyStr(body.url) /\ ~IsMultiPage(body)
    /\ res' = Resp("crawl", 400)
    /\ UNCHANGED <<file, data, cache, now, crawls, wcur, wnext, uuids, puts>>

CrawlHit(body) ==
    /\ TruthyStr(body.url) \/ IsMultiPage(body)
    /\ CacheValid(CacheKey(body))
    /\ res' = [Resp("crawl", 200) EXCEPT !.bundle = cache[CacheKey(body)].data]
    /\ UNCHANGED <<file, data, cache, now, crawls, wcur, wnext, uuids, puts>>

\* The miss path up to the first page: a page range with no page in it ends
\* the crawl at once, with nothing found (404), or with the browser not
\* launched (500).
CrawlMiss(body) ==
    /\ TruthyStr(body.url) \/ IsMultiPage(body)
    /\ ~CacheValid(CacheKey(body))
    /\ IF IsMultiPage(body) /\ body.startPage > body.endPage
       THEN /\ \E status \in {404, 500} : res' = Resp("crawl", status)
            /\ UNCHANGED crawls
       ELSE /\ uuids + BagCardinality(crawls) < MaxSources
            /\ crawls' = crawls (+) SetToBag({
                          [NoReq EXCEPT !.op = "crawl", !.pc = "render", !.body = body,
                                        !.key = CacheKey(body), !.started = now,
                                        !.before = Base,
                                        !.i = IF IsMultiPage(body) THEN body.startPage ELSE 0]})
            /\ res' = NoResp
    /\ UNCHANGED <<file, data, cache, now, wcur, wnext, uuids, puts>>

CrawlStart(body) == CrawlInvalid(body) \/ CrawlHit(body) \/ CrawlMiss(body)

\* An await of the try block before db.write() is rejected (the browser does
\* not launch, a page does not load or cannot be evaluated, db.read() fails):
\* the catch block answers 500.
CrawlRenderFail(r) ==
    /\ BagIn(r, crawls) /\ r.pc = "render"
    /\ crawls' = crawls (-) SetToBag({r})
    /\ res' = Resp("crawl", 500)
    /\ UNCHANGED <<file, data, cache, now, wcur, wnext, uuids, puts>>

\* The new images pushed after the images there were.
CrawlDocPush(base, newSource, newImages) ==
    [sources |-> Append(base.sources, newSource),
     images |-> base.images \o newImages,
     favorites |-> base.favorites]

\* The document a crawl that found urls leaves in db.data, from the document
\* db.read() gave it.
CrawlDoc(base, newSource, newImages) ==
    [sources |-> Append(base.sources, newSource),
     images |-> newImages \o base.images,
     favorites |-> base.favorites]

\* scrapeUrl of page r.i returns dom. After the last page the handler goes on
\* in the same step, the page's return being independent of everything else:
\* it answers 404 when nothing was found, and otherwise runs from
\* `await db.read()` to the call of db.write(). The scroll loop polls every
\* 2000 ms, so the clock reads later than when the crawl began.
CrawlRender(r, dom) ==
    /\ BagIn(r, crawls) /\ r.pc = "render"
    /\ now > r.started
    /\ LET multi == IsMultiPage(r.body)
           acc2 == AddAll(r.acc, QualityFilter(dom))
           seen == Append(r.rendered, [page |-> r.i, dom |-> dom])
           last == ~multi \/ r.i + 1 > r.body.endPage
           newSource == NewSource(r.body, uuids + 1)
           newImages == NewImages(acc2, newSource, now)
           doc == CrawlDoc(Base, newSource, newImages)
       IN  IF ~last
           THEN /\ crawls' = Replace(crawls, r, [r EXCEPT !.i = r.i + 1, !.acc = acc2,
                                                            !.rendered = seen])
                /\ res' = NoResp
                /\ UNCHANGED <<data, wcur, wnext, uuids>>
           ELSE IF Len(acc2) = 0
           THEN /\ crawls' = crawls (-) SetToBag({r})
                /\ res' = Resp("crawl", 404)
                /\ UNCHANGED <<data, wcur, wnext, uuids>>
           ELSE /\ crawls' = crawls (-) SetToBag({r})
                /\ data' = doc
                /\ Enqueue(doc, [r EXCEPT !.pc = "write", !.acc = acc2, !.rendered = seen,
                                           !.bundle = [newSource |-> newSource,
                                                       newImages |-> newImages]])
                /\ uuids' = uuids + 1
                /\ res' = NoResp
    /\ UNCHANGED <<file, cache, now, puts>>

(* GET /api/sources and GET /api/images *)

ListSources ==
    /\ data' = Base
    /\ res' = [Resp("sources", 200) EXCEPT !.sources = Base.sources]
    /\ UNCHANGED <<file, cache, now, crawls, wcur, wnext, uuids, puts>>

ImagesWithFavorites(doc) ==
    [k \in 1..Len(doc.images) |->
        [image |-> doc.images[k],
         isFavorited |-> doc.images[k].id \in SeqToSet(doc.favorites)]]

ListImages ==
    /\ data' = Base
    /\ res' = [Resp("images", 200) EXCEPT !.images = ImagesWithFavorites(Base)]
    /\ UNCHANGED <<file, cache, now, crawls, wcur, wnext, uuids, puts>>

(* DELETE /api/sources/:id, from `await db.read()` to the call of db.write() *)

DeleteNotFound(id) ==
    /\ FindSource(Base.sources, id) = NoSource
    /\ data' = Base
    /\ res' = Resp("delete", 404)
    /\ UNCHANGED <<file, cache, now, crawls, wcur, wnext, uuids, puts>>

DeleteFound(id) ==
    /\ FindSource(Base.sources, id) # NoSource
    /\ LET doc == DeleteDoc(Base, id)
       IN  /\ data' = doc
           /\ Enqueue(doc, [NoReq EXCEPT !.op = "delete", !.pc = "write", !.body.id = id,
                                 !.before = Base,
                                 !.sourceToRemove = FindSource(Base.sources, id)])
    /\ res' = NoResp
    /\ UNCHANGED <<file, cache, now, crawls, uuids, puts>>

DeleteSource(id) == DeleteNotFound(id) \/ DeleteFound(id)

(* POST /api/favorites, from `await db.read()` to the call of db.write() *)

SetFavorite(imageId, favorite) ==
    /\ LET doc == [Base EXCEPT !.favorites = SetFavorites(Base.favorites, imageId, favorite)]
       IN  /\ Len(doc.favorites) <= MaxFavorites
           /\ data' = doc
           /\ Enqueue(doc, [NoReq EXCEPT !.op = "favorite", !.pc = "write",
                                 !.body.imageId = imageId, !.body.favorite = favorite])
    /\ res' = NoResp
    /\ UNCHANGED <<file, cache, now, crawls, uuids, puts>>

(* The write on disk, and what each handler does after `await db.write()` *)

\* The entry stored only when the map has none for the key.
CacheSetIfAbsent(c, key, bundle, t) ==
    [k \in DOMAIN c \cup {key} |->
        IF k \in DOMAIN c THEN c[k] ELSE [data |-> bundle, timestamp |-> t]]

CacheSet(c, key, bundle, t) ==
    [k \in DOMAIN c \cup {key} |->
        IF k = key THEN [data |-> bundle, timestamp |-> t] ELSE c[k]]

CacheDelete(c, key) == [k \in DOMAIN c \ {key} |-> c[k]]

AfterWriteCache(c, r) ==
    IF r.op = "crawl" THEN CacheSet(c, r.key, r.bundle, now)
    ELSE IF r.op = "delete" /\ TruthyStr(r.sourceToRemove.url)
    THEN CacheDelete(c, r.sourceToRemove.url)
    ELSE c

AfterWritePuts(p, r) ==
    IF r.op = "crawl"
    THEN [k \in DOMAIN p \cup {r.key} |->
            IF k = r.key THEN [at |-> now, deleted |-> FALSE] ELSE p[k]]
    ELSE IF r.op = "delete" /\ TruthyStr(r.sourceToRemove.url)
    THEN [k \in DOMAIN p |->
            IF k = r.sourceToRemove.url THEN [p[k] EXCEPT !.deleted = TRUE] ELSE p[k]]
    ELSE p

AfterWriteRes(r) ==
    IF r.op = "crawl" THEN [Resp("crawl", 201) EXCEPT !.bundle = r.bundle]
    ELSE IF r.op = "delete" THEN Resp("delete", 200)
    ELSE IF r.op = "sync" THEN [Resp("sync", 200) EXCEPT !.bundle = r.bundle]
    ELSE [Resp("favorite", 200) EXCEPT !.favorites = data.favorites]

RECURSIVE FoldCache(_, _)
FoldCache(c, ws) ==
    IF ws = << >> THEN c ELSE FoldCache(AfterWriteCache(c, Head(ws)), Tail(ws))

RECURSIVE FoldPuts(_, _)
FoldPuts(p, ws) ==
    IF ws = << >> THEN p ELSE FoldPuts(AfterWritePuts(p, Head(ws)), Tail(ws))

WriteDone ==
    /\ wcur.busy
    /\ file' = [exists |-> TRUE, doc |-> wcur.doc]
    /\ cache' = FoldCache(cache, wcur.waiters)
    /\ puts' = FoldPuts(puts, wcur.waiters)
    /\ res' = AfterWriteRes(wcur.waiters[Len(wcur.waiters)])
    /\ wcur' = wnext
    /\ wnext' = NoWrite
    /\ UNCHANGED <<data, now, crawls, uuids>>

\* The process is running: it has not exited on an unhandled rejection.
Up == res.op # "exit"

Exited ==
    /\ data' = DefaultData
    /\ cache' = << >>
    /\ puts' = << >>
    /\ crawls' = EmptyBag
    /\ wcur' = NoWrite
    /\ wnext' = NoWrite
    /\ res' = Resp("exit", 1)
    /\ UNCHANGED <<file, now, uuids>>

\* The write on disk fails: db.write() is rejected for every handler that
\* waits for it, and the writer goes on with the document held back. A crawl
\* answers 500 from its catch block. The handlers of delete and favorites
\* catch nothing: the rejection is unhandled, and either the request is left
\* without an answer or the process exits, as the runtime has it.
WriteFail ==
    /\ wcur.busy
    /\ \/ /\ res' = IF wcur.waiters[Len(wcur.waiters)].op = "crawl"
                     THEN Resp("crawl", 500) ELSE NoResp
          /\ wcur' = wnext
          /\ wnext' = NoWrite
          /\ UNCHANGED <<file, data, cache, now, crawls, uuids, puts>>
       \/ /\ \E k \in 1..Len(wcur.waiters) : wcur.waiters[k].op # "crawl"
          /\ Exited

ImageIds(doc) == {doc.images[k].id : k \in 1..Len(doc.images)}

FavoriteInputs == ImageIds(Base) \cup SeqToSet(Base.favorites)

\* One request at a time: the next arrives when the last was answered.
Next ==
    \/ Up /\ Tick(ClockPoints) /\ UNCHANGED page
    \/ Up /\ InFlight = 0 /\ \E body \in CrawlBodies : CrawlStart(body) /\ UNCHANGED page
    \/ Up /\ \E r \in BagToSet(crawls) : CrawlRenderFail(r) /\ UNCHANGED page
    \/ Up /\ \E r \in BagToSet(crawls), dom \in Doms : CrawlRender(r, dom) /\ UNCHANGED page
    \/ Up /\ InFlight = 0 /\ \E id \in SourceIds : DeleteSource(id) /\ UNCHANGED page
    \/ Up /\ InFlight = 0 /\ \E imageId \in FavoriteInputs, favorite \in BOOLEAN :
                                  SetFavorite(imageId, favorite) /\ UNCHANGED page
    \/ Up /\ WriteDone /\ UNCHANGED page
    \/ Up /\ WriteFail /\ UNCHANGED page
    \/ Up /\ ListSources /\ UNCHANGED page
    \/ Up /\ ListImages /\ UNCHANGED page

Spec == Init /\ [][Next]_vars

\* Requests in flight together.
NextConcurrent ==
    \/ Up /\ Tick(ConcurrentClockPoints) /\ UNCHANGED page
    \/ Up /\ InFlight < MaxInFlight /\ \E body \in ConcurrentBodies : CrawlStart(body) /\ UNCHANGED page
    \/ Up /\ \E r \in BagToSet(crawls) : CrawlRenderFail(r) /\ UNCHANGED page
    \/ Up /\ \E r \in BagToSet(crawls), dom \in ConcurrentDoms : CrawlRender(r, dom) /\ UNCHANGED page
    \/ Up /\ InFlight < MaxInFlight /\ \E id \in SourceIds : DeleteSource(id) /\ UNCHANGED page
    \/ Up /\ InFlight < MaxInFlight /\ \E imageId \in FavoriteInputs, favorite \in BOOLEAN :
                                           SetFavorite(imageId, favorite) /\ UNCHANGED page
    \/ Up /\ WriteDone /\ UNCHANGED page
    \/ Up /\ WriteFail /\ UNCHANGED page
    \/ Up /\ ListSources /\ UNCHANGED page
    \/ Up /\ ListImages /\ UNCHANGED page

SpecConcurrent == Init /\ [][NextConcurrent]_vars

\* Requests in flight together, enough of them for two to call db.write()
\* while a write is on its way to the disk.
NextQueued ==
    \/ Up /\ Tick(ConcurrentClockPoints) /\ UNCHANGED page
    \/ Up /\ InFlight < MaxQueued /\ \E body \in ConcurrentBodies : CrawlStart(body) /\ UNCHANGED page
    \/ Up /\ \E r \in BagToSet(crawls) : CrawlRenderFail(r) /\ UNCHANGED page
    \/ Up /\ \E r \in BagToSet(crawls), dom \in ConcurrentDoms : CrawlRender(r, dom) /\ UNCHANGED page
    \/ Up /\ InFlight < MaxQueued /\ \E id \in SourceIds : DeleteSource(id) /\ UNCHANGED page
    \/ Up /\ InFlight < MaxQueued /\ \E imageId \in FavoriteInputs, favorite \in BOOLEAN :
                                         SetFavorite(imageId, favorite) /\ UNCHANGED page
    \/ Up /\ WriteDone /\ UNCHANGED page
    \/ Up /\ WriteFail /\ UNCHANGED page
    \/ Up /\ ListSources /\ UNCHANGED page
    \/ Up /\ ListImages /\ UNCHANGED page

SpecQueued == Init /\ [][NextQueued]_vars

\* Crawls of targets of both kinds, one request at a time.
NextFingerprint ==
    \/ Up /\ Tick(ClockPoints) /\ UNCHANGED page
    \/ Up /\ InFlight = 0 /\ \E body \in FingerprintBodies : CrawlStart(body) /\ UNCHANGED page
    \/ Up /\ \E r \in BagToSet(crawls) : CrawlRenderFail(r) /\ UNCHANGED page
    \/ Up /\ \E r \in BagToSet(crawls), dom \in Doms : CrawlRender(r, dom) /\ UNCHANGED page
    \/ Up /\ WriteDone /\ UNCHANGED page
    \/ Up /\ WriteFail /\ UNCHANGED page

SpecFingerprint == Init /\ [][NextFingerprint]_vars

(* POST /api/sources/:id/sync. The handler of lines 421-423 has its body left
   out ("código de sincronização inalterado"); it is taken from what the
   specification says of sync: the source's url is rendered again, with no
   page range and no use of the cache, and an image is made and put before
   the others for each address found that the source has not yet. *)

SrcsOf(doc, id) ==
    {doc.images[k].src : k \in {j \in 1..Len(doc.images) : doc.images[j].sourceId = id}}

\* The images of the source replaced by the images found.
SyncDocReplace(base, source, found, t) ==
    [base EXCEPT !.images = NewImages(found, source, t)
                             \o SelectSeq(base.images, LAMBDA image : image.sourceId # source.id)]

SyncDoc(base, source, found, t) ==
    LET fresh == SelectSeq(found, LAMBDA u : u \notin SrcsOf(base, source.id))
    IN  [base EXCEPT !.images = NewImages(fresh, source, t) \o base.images]

SyncNotFound(id) ==
    /\ FindSource(Base.sources, id) = NoSource
    /\ data' = Base
    /\ res' = Resp("sync", 404)
    /\ UNCHANGED <<file, cache, now, crawls, wcur, wnext, uuids, puts>>

SyncFound(id, dom) ==
    /\ FindSource(Base.sources, id) # NoSource
    /\ LET source == FindSource(Base.sources, id)
           doc == SyncDoc(Base, source, QualityFilter(dom), now)
           newImages == SubSeq(doc.images, 1, Len(doc.images) - Len(Base.images))
       IN  /\ data' = doc
           /\ IF newImages = << >>
              THEN /\ res' = Resp("sync", 200)
                   /\ UNCHANGED <<wcur, wnext>>
              ELSE /\ res' = NoResp
                   /\ Enqueue(doc, [NoReq EXCEPT !.op = "sync", !.pc = "write",
                                         !.body.id = id, !.before = Base,
                                         !.bundle = [newSource |-> source,
                                                     newImages |-> newImages]])
    /\ UNCHANGED <<file, cache, now, crawls, uuids, puts>>

Sync(id, dom) == SyncNotFound(id) \/ SyncFound(id, dom)

\* Crawls and syncs of their sources, one request at a time.
NextSync ==
    \/ Up /\ Tick(ClockPoints) /\ UNCHANGED page
    \/ Up /\ InFlight = 0 /\ \E body \in ConcurrentBodies : CrawlStart(body) /\ UNCHANGED page
    \/ Up /\ \E r \in BagToSet(crawls), dom \in Doms : CrawlRender(r, dom) /\ UNCHANGED page
    \/ Up /\ InFlight = 0 /\ \E id \in SourceIds, dom \in Doms : Sync(id, dom) /\ UNCHANGED page
    \/ Up /\ WriteDone /\ UNCHANGED page

SpecSync == Init /\ [][NextSync]_vars

(* The first version of the server, lines 1-193: a crawl takes one url, and
   DELETE /api/sources/:id removes every image of the source and the
   favorites that name one. GET and POST /api/favorites are as in the second
   version, and so is what follows `await db.write()`. *)

MinDimensionV1 == 150

DomsV1 ==
    { << Img("i1", 150, 150), Img("i2", 151, 150) >>,
      << Img("i1", 151, 151), Img("i2", 151, 151), Img("i1", 151, 151) >>,
      << Img("i2", 151, 151) >> }

ImageUrls(dom) ==
    LET big == SelectSeq(dom, LAMBDA img : /\ img.naturalWidth > MinDimensionV1
                                           /\ img.naturalHeight > MinDimensionV1)
    IN  AddAll(<< >>, [k \in 1..Len(big) |-> big[k].src])

ScrapeStart(url) ==
    /\ IF ~TruthyStr(url)
       THEN /\ res' = Resp("crawl", 400)
            /\ UNCHANGED crawls
       ELSE IF CacheValid(url)
       THEN /\ res' = [Resp("crawl", 200) EXCEPT !.bundle = cache[url].data]
            /\ UNCHANGED crawls
       ELSE /\ uuids + BagCardinality(crawls) < MaxSources
            /\ crawls' = crawls (+) SetToBag({
                          [NoReq EXCEPT !.op = "crawl", !.pc = "render",
                                        !.body = [NoBody EXCEPT !.url = url],
                                        !.key = url, !.started = now, !.before = Base]})
            /\ res' = NoResp
    /\ UNCHANGED <<file, data, cache, now, wcur, wnext, uuids, puts>>

ScrapeFail(r) ==
    /\ BagIn(r, crawls) /\ r.pc = "render"
    /\ crawls' = crawls (-) SetToBag({r})
    /\ res' = Resp("crawl", 500)
    /\ UNCHANGED <<file, data, cache, now, wcur, wnext, uuids, puts>>

\* The page is loaded, scrolled (the timer runs every 100 ms) and evaluated;
\* the handler goes on to its answer 404 or to the call of db.write().
ScrapeRender(r, dom) ==
    /\ BagIn(r, crawls) /\ r.pc = "render"
    /\ now > r.started
    /\ crawls' = crawls (-) SetToBag({r})
    /\ LET imageUrls == ImageUrls(dom)
           newSource == [id |-> UUID(uuids + 1), url |-> r.body.url,
                         name |-> Hostname(r.body.url)]
           newImages == NewImages(imageUrls, newSource, now)
           doc == [sources |-> Append(Base.sources, newSource),
                   images |-> newImages \o Base.images,
                   favorites |-> Base.favorites]
       IN  IF Len(imageUrls) = 0
           THEN /\ res' = Resp("crawl", 404)
                /\ UNCHANGED <<data, wcur, wnext, uuids>>
           ELSE /\ data' = doc
                /\ Enqueue(doc, [r EXCEPT !.pc = "write", !.acc = imageUrls,
                                           !.rendered = << [page |-> 0, dom |-> dom] >>,
                                           !.bundle = [newSource |-> newSource,
                                                       newImages |-> newImages]])
                /\ uuids' = uuids + 1
                /\ res' = NoResp
    /\ UNCHANGED <<file, cache, now, puts>>

\* The favorites of the removed images left where they are.
PrunedDocFavoritesKept(base, id) ==
    [sources |-> SelectSeq(base.sources, LAMBDA source : source.id # id),
     images |-> SelectSeq(base.images, LAMBDA image : image.sourceId # id),
     favorites |-> base.favorites]

\* The document the hard delete leaves in db.data.
PrunedDoc(base, id) ==
    LET imagesToRemoveIds ==
            {base.images[k].id :
                k \in {j \in 1..Len(base.images) : base.images[j].sourceId = id}}
    IN  [sources |-> SelectSeq(base.sources, LAMBDA source : source.id # id),
         images |-> SelectSeq(base.images, LAMBDA image : image.sourceId # id),
         favorites |-> SelectSeq(base.favorites,
                                 LAMBDA favId : favId \notin imagesToRemoveIds)]

HardDeleteNotFound(id) ==
    /\ FindSource(Base.sources, id) = NoSource
    /\ data' = Base
    /\ res' = Resp("delete", 404)
    /\ UNCHANGED <<file, cache, now, crawls, wcur, wnext, uuids, puts>>

HardDeleteFound(id) ==
    /\ FindSource(Base.sources, id) # NoSource
    /\ LET doc == PrunedDoc(Base, id)
       IN  /\ data' = doc
           /\ Enqueue(doc, [NoReq EXCEPT !.op = "delete", !.pc = "write", !.body.id = id,
                                 !.before = Base,
                                 !.sourceToRemove = FindSource(Base.sources, id)])
    /\ res' = NoResp
    /\ UNCHANGED <<file, cache, now, crawls, uuids, puts>>

HardDeleteSource(id) == HardDeleteNotFound(id) \/ HardDeleteFound(id)

NextHardDelete ==
    \/ Up /\ Tick(ClockPoints) /\ UNCHANGED page
    \/ Up /\ InFlight = 0 /\ \E url \in {"", SingleUrl} : ScrapeStart(url) /\ UNCHANGED page
    \/ Up /\ \E r \in BagToSet(crawls) : ScrapeFail(r) /\ UNCHANGED page
    \/ Up /\ \E r \in BagToSet(crawls), dom \in DomsV1 : ScrapeRender(r, dom) /\ UNCHANGED page
    \/ Up /\ InFlight = 0 /\ \E id \in SourceIds : HardDeleteSource(id) /\ UNCHANGED page
    \/ Up /\ InFlight = 0 /\ \E imageId \in FavoriteInputs, favorite \in BOOLEAN :
                                  SetFavorite(imageId, favorite) /\ UNCHANGED page
    \/ Up /\ WriteDone /\ UNCHANGED page
    \/ Up /\ WriteFail /\ UNCHANGED page

SpecHardDelete == Init /\ [][NextHardDelete]_vars

(* The scroll loop of scrapeUrl, poll by poll *)

maxScrolls == 25

\* The heights the page may have when it is polled again: it grows, stays or
\* shrinks.
HeightsAfter(h) == {h + 1, h} \cup (IF h > 0 THEN {h - 1} ELSE {})

\* One run of the interval's callback.
ScrollPoll ==
    /\ ~page.done
    /\ \E newHeight \in HeightsAfter(page.height) :
          page' = IF newHeight = page.lastHeight \/ page.scrolls >= maxScrolls
                  THEN [page EXCEPT !.done = TRUE, !.polls = @ + 1,
                                    !.prev = page.lastHeight, !.height = newHeight]
                  ELSE [page EXCEPT !.lastHeight = newHeight, !.scrolls = @ + 1,
                                    !.polls = @ + 1,
                                    !.prev = page.lastHeight, !.height = newHeight]
    /\ UNCHANGED server

NextScroll == ScrollPoll

\* The timer of setInterval keeps firing until it is cleared.
SpecScroll == Init /\ [][NextScroll]_vars /\ WF_vars(ScrollPoll)

(* ------------------------------ Properties ------------------------------ *)

\* The targets and fingerprints the requests of the model have.
Targets == {body \in CrawlBodies \cup ConcurrentBodies : TruthyStr(body.url) \/ IsMultiPage(body)}

Keys == {CacheKey(body) : body \in Targets} \cup DOMAIN cache \cup DOMAIN puts

\* The cache holds under key an entry stored less than the lifetime ago.
HoldsUnexpired(key) ==
    \E k \in DOMAIN cache : k = key /\ now < cache[k].timestamp + CACHE_DURATION_MS

\* C1: a crawl whose target's fingerprint has an unexpired cache entry answers
\* with exactly the stored bundle, starts no render, neither reads nor writes
\* the catalog, and leaves sources, images, favorites and the cache, the
\* entry's timestamp included, as they were.
C1_CacheHitFrame ==
    [][\A body \in Targets :
          HoldsUnexpired(CacheKey(body)) /\ CrawlStart(body)
          => /\ res'.op = "crawl" /\ res'.status = 200
             /\ res'.bundle = cache[CacheKey(body)].data
             /\ UNCHANGED <<file, data, cache, crawls, wcur, wnext, uuids, now>>]_vars

\* A hit answered from an entry stored some time ago, with a catalog that has
\* what the entry describes.
C1_Witness ==
    /\ res.op = "crawl" /\ res.status = 200
    /\ \E k \in DOMAIN cache :
          /\ cache[k].data = res.bundle
          /\ cache[k].timestamp < now /\ now < cache[k].timestamp + CACHE_DURATION_MS
    /\ Len(data.images) > 0

\* C2 as the specification has it: a lookup of k returns a bundle exactly
\* when k was put less than the lifetime ago.
C2_LookupIffPutWithinTTL ==
    \A k \in Keys :
        CacheValid(k) <=> (k \in DOMAIN puts /\ now - puts[k].at < CACHE_DURATION_MS)

\* C2, amended: a lookup of k returns a bundle exactly when the last put of k
\* was less than the lifetime ago and no deleteSource has removed k since;
\* an entry that is not removed stays in the map as it was put, also once
\* it is expired, and is then treated as absent.
C2_LookupIffLivePutWithinTTL ==
    /\ \A k \in Keys :
          CacheValid(k) <=> /\ k \in DOMAIN puts
                            /\ ~puts[k].deleted
                            /\ now - puts[k].at < CACHE_DURATION_MS
    /\ \A k \in DOMAIN puts :
          ~puts[k].deleted => k \in DOMAIN cache /\ cache[k].timestamp = puts[k].at

\* A crawl on the miss path although the map still has an entry for its
\* target, stored the lifetime ago or earlier.
C2_Witness ==
    \E r \in BagToSet(crawls) :
        /\ r.key \in DOMAIN cache
        /\ r.started - cache[r.key].timestamp >= CACHE_DURATION_MS
        /\ ~CacheValid(r.key)

\* The images of the document the step reads that belong to source id.
ImagesOf(id) == {k \in 1..Len(Base.images) : Base.images[k].sourceId = id}

Favorited(image) == \E k \in 1..Len(Base.favorites) : Base.favorites[k] = image.id

\* C3: after a successful deleteSource(id), of each image that had sourceId
\* = id: a favorited one is still in the collection, by its id, with
\* sourceId null; of any other, no image with its id is in the collection.
C3_FavoritedKeptOthersRemoved ==
    [][\A id \in SourceIds :
          DeleteFound(id)
          => \A k \in ImagesOf(id) :
               IF Favorited(Base.images[k])
               THEN \E j \in 1..Len(data'.images) :
                      /\ data'.images[j].id = Base.images[k].id
                      /\ data'.images[j].sourceId = Null
               ELSE \A j \in 1..Len(data'.images) :
                      data'.images[j].id # Base.images[k].id]_vars

\* What C4 says of the image: the copy retained, with the given prefix.
Retained(image, prefix) ==
    [id |-> image.id, src |-> image.src, alt |-> image.alt, author |-> image.author,
     source |-> prefix \o image.source, sourceId |-> Null]

RetainedAs(prefix) ==
    \A id \in SourceIds :
        DeleteFound(id)
        => \A k \in ImagesOf(id) :
             Favorited(Base.images[k])
             => \E j \in 1..Len(data'.images) :
                  /\ data'.images[j].id = Base.images[k].id
                  /\ data'.images[j] = Retained(Base.images[k], prefix)

\* C4 as the specification has it: the retained image has for source the
\* string "(Archived) " followed by the source name it had, sourceId null,
\* and its id, src, alt and author as they were.
C4_RetainedArchivedPrefix == [][RetainedAs("(Archived) ")]_vars

\* C4, amended: the retained image has for source the string "(Arquivado) "
\* followed by the source name it had, sourceId null, and its id, src, alt
\* and author as they were.
C4_RetainedArquivadoPrefix == [][RetainedAs("(Arquivado) ")]_vars

\* A deleteSource at its write that retained a favorited image.
C4_Witness ==
    /\ wcur.busy /\ wcur.waiters[1].op = "delete"
    /\ \E j \in 1..Len(data.images) :
          /\ data.images[j].sourceId = Null
          /\ data.images[j].id \in SeqToSet(data.favorites)
          /\ data.images[j].source = "(Arquivado) a.test"

RECURSIVE IsSubSeq(_, _)
IsSubSeq(a, b) ==
    IF a = << >> THEN TRUE
    ELSE IF b = << >> THEN FALSE
    ELSE IF Head(a) = Head(b) THEN IsSubSeq(Tail(a), Tail(b))
    ELSE IsSubSeq(a, Tail(b))

\* C5: deleteSource(id) leaves the favorites as they were, every source
\* other than id as it was, and every image whose sourceId is not id as it
\* was and in the same relative order.
C5_DeleteFrame ==
    [][\A id \in SourceIds :
          DeleteFound(id)
          => /\ data'.favorites = Base.favorites
             /\ data'.sources = SelectSeq(Base.sources, LAMBDA s : s.id # id)
             /\ \A k \in 1..Len(Base.sources) :
                   Base.sources[k].id # id
                   => \E j \in 1..Len(data'.sources) : data'.sources[j] = Base.sources[k]
             /\ IsSubSeq(SelectSeq(Base.images, LAMBDA image : image.sourceId # id),
                         data'.images)]_vars

\* A deleteSource at its write with a favorite, another source and two
\* images of other sources in what it leaves.
C5_Witness ==
    /\ wcur.busy /\ wcur.waiters[1].op = "delete"
    /\ Len(data.favorites) > 0
    /\ Len(data.sources) > 0
    /\ \E j, k \in 1..Len(data.images) :
          /\ j < k
          /\ data.images[j].sourceId = data.sources[1].id
          /\ data.images[k].sourceId = data.sources[1].id

\* C6: deleteSource of an id that no source has answers not found, and
\* changes no source, image, favorite or cache entry.
C6_UnknownIdNotFound ==
    [][\A id \in SourceIds :
          (\A k \in 1..Len(Base.sources) : Base.sources[k].id # id) /\ DeleteSource(id)
          => /\ res'.op = "delete" /\ res'.status = 404
             /\ data' = Base
             /\ UNCHANGED <<file, cache, wcur, wnext, crawls, uuids>>]_vars

\* Not found answered with sources, images, a favorite and a cache entry
\* there to change.
C6_Witness ==
    /\ res.op = "delete" /\ res.status = 404
    /\ Len(data.sources) > 0 /\ Len(data.images) > 0 /\ Len(data.favorites) > 0
    /\ DOMAIN cache # {}

\* C7: after a successful deleteSource(id), no cached bundle whose newSource
\* is the removed source can be returned within the lifetime, whether the
\* source came of a single url or of a page range.
C7_NoDanglingCacheEntry ==
    [][WriteDone
       => \A k \in 1..Len(wcur.waiters) :
            wcur.waiters[k].op = "delete"
            => \A key \in DOMAIN cache' :
                 now' - cache'[key].timestamp < CACHE_DURATION_MS
                 => cache'[key].data.newSource.id # wcur.waiters[k].body.id]_vars

\* The urls of a page's images that are more than 100 pixels wide and high.
QualifyingUrls(dom) ==
    {dom[k].src : k \in {j \in 1..Len(dom) : /\ dom[j].naturalWidth > MinDimension
                                              /\ dom[j].naturalHeight > MinDimension}}

\* The pages a target has: the single url (page 0 here), or the pages of the
\* range in ascending order.
PagesOf(body) ==
    IF TruthyStr(body.urlPattern) /\ body.startPage # 0 /\ body.endPage # 0
    THEN [k \in 1..(body.endPage - body.startPage + 1) |-> body.startPage + k - 1]
    ELSE << 0 >>

\* The crawls that have called db.write() and wait for it.
PendingCrawls ==
    {w \in SeqToSet(wcur.waiters) \cup SeqToSet(wnext.waiters) : w.op = "crawl"}

\* C8: the newImages of a crawl on the miss path have for src values exactly
\* the union of the qualifying urls of the pages rendered, one image per
\* url, the pages rendered being the single url, or each page from startPage
\* to endPage once and in ascending order.
C8_NewImagesAreUnionOfPages ==
    \A w \in PendingCrawls :
        LET newImages == w.bundle.newImages
        IN  /\ [k \in 1..Len(w.rendered) |-> w.rendered[k].page] = PagesOf(w.body)
            /\ {newImages[k].src : k \in 1..Len(newImages)}
                 = UNION {QualifyingUrls(w.rendered[k].dom) : k \in 1..Len(w.rendered)}
            /\ \A j, k \in 1..Len(newImages) :
                 newImages[j].src = newImages[k].src => j = k

\* A crawl of two pages that share a qualifying url, one of them with the
\* url twice.
C8_Witness ==
    \E w \in PendingCrawls :
        /\ Len(w.rendered) = 2
        /\ QualifyingUrls(w.rendered[1].dom) \cap QualifyingUrls(w.rendered[2].dom) # {}
        /\ QualifyingUrls(w.rendered[1].dom) # QualifyingUrls(w.rendered[2].dom)
        /\ \E k \in 1..2 : Len(w.rendered[k].dom) > Cardinality(SeqToSet(w.rendered[k].dom))

\* The page r renders next is its last.
LastPage(r) == PagesOf(r.body)[Len(PagesOf(r.body))] = r.i

\* The qualifying urls of the pages r has rendered and of the page dom.
Found(r, dom) ==
    UNION {QualifyingUrls(r.rendered[k].dom) : k \in 1..Len(r.rendered)}
        \cup QualifyingUrls(dom)

AllDoms == Doms \cup ConcurrentDoms

\* C9: a crawl on the miss path that ends with no qualifying url answers
\* with the empty result (404), which is not the answer of a failure (500),
\* and makes no source, no image and no cache entry; a page range with no
\* page in it renders nothing and, unless the browser fails, ends so too.
C9_EmptyResult ==
    [][/\ \A r \in BagToSet(crawls), dom \in AllDoms :
            CrawlRender(r, dom) /\ LastPage(r) /\ Found(r, dom) = {}
            => /\ res'.op = "crawl" /\ res'.status = 404 /\ res'.status # 500
               /\ UNCHANGED <<file, data, cache, wcur, wnext, uuids>>
       /\ \A body \in Targets :
            /\ CrawlStart(body)
            /\ ~HoldsUnexpired(CacheKey(body))
            /\ PagesOf(body) = << >>
            => /\ res'.op = "crawl" /\ res'.status \in {404, 500}
               /\ UNCHANGED <<file, data, cache, crawls, wcur, wnext, uuids>>]_vars

\* The empty result answered by a server that had a source, images and a
\* cache entry already.
C9_Witness ==
    /\ res.op = "crawl" /\ res.status = 404
    /\ Len(data.sources) = 1 /\ Len(data.images) > 0 /\ uuids = 1
    /\ DOMAIN cache # {}

\* C10: a crawl that found urls adds exactly one source and one image per
\* unique url, each with sourceId the new source's id; the new images come
\* before all the images there were, which keep their content and order.
C10_OneSourceImagesFirst ==
    [][\A r \in BagToSet(crawls), dom \in AllDoms :
          CrawlRender(r, dom) /\ LastPage(r) /\ Found(r, dom) # {}
          => LET n == Cardinality(Found(r, dom))
                 new == data'.sources[Len(data'.sources)]
             IN  /\ Len(data'.sources) = Len(Base.sources) + 1
                 /\ SubSeq(data'.sources, 1, Len(Base.sources)) = Base.sources
                 /\ \A k \in 1..Len(Base.sources) : Base.sources[k].id # new.id
                 /\ Len(data'.images) = n + Len(Base.images)
                 /\ {data'.images[k].src : k \in 1..n} = Found(r, dom)
                 /\ \A k \in 1..n : data'.images[k].sourceId = new.id
                 /\ SubSeq(data'.images, n + 1, n + Len(Base.images)) = Base.images]_vars

\* A crawl at its write that found two urls, with a source and images there
\* before it.
C10_Witness ==
    \E w \in PendingCrawls :
        /\ Len(w.bundle.newImages) = 2
        /\ Len(data.sources) = 2
        /\ Len(data.images) > 2
        /\ data.images[3].sourceId = data.sources[1].id

\* C11: a crawl that fails before its catalog write completes (a page that
\* fails to load or to evaluate, the first or a later one, a failed read or
\* a failed write of the store) leaves the persisted catalog exactly as it
\* was when the crawl began, and that catalog is what later operations read.
C11_FailedCrawlLeavesCatalog ==
    [][/\ \A r \in BagToSet(crawls) :
            CrawlRenderFail(r) => file' = file /\ Base' = r.before
       /\ WriteFail /\ Up'
            => \A k \in 1..Len(wcur.waiters) :
                 wcur.waiters[k].op = "crawl"
                 => file' = file /\ Base' = wcur.waiters[k].before]_vars

\* Every image of doc with a sourceId has a source of doc with that id.
Linked(doc) ==
    \A k \in 1..Len(doc.images) :
        doc.images[k].sourceId # Null
        => \E j \in 1..Len(doc.sources) : doc.sources[j].id = doc.images[k].sourceId

\* C12: in every persisted catalog that crawls, deletes and favorites reach,
\* in sequence or interleaved, every image with a non-null sourceId has a
\* source with that id.
C12_ImagesLinkedToSources == file.exists => Linked(file.doc)

\* A persisted catalog with an archived image and an image of a source,
\* written while requests were in flight together.
C12_Witness ==
    /\ file.exists /\ wcur.busy
    /\ \E j, k \in 1..Len(file.doc.images) :
          file.doc.images[j].sourceId = Null /\ file.doc.images[k].sourceId # Null

UniqueImageIds(doc) ==
    \A j, k \in 1..Len(doc.images) : doc.images[j].id = doc.images[k].id => j = k

IdsOf(images) == [k \in 1..Len(images) |-> images[k].id]

\* C13: in every catalog reached no two images have the same id, images of
\* two crawls included, and no operation changes the id of an image there
\* is: the images a step keeps have the ids they had, in the same order.
C13_UniqueStableImageIds ==
    [][/\ UniqueImageIds(data') /\ UniqueImageIds(file'.doc)
       /\ \A id \in SourceIds :
            DeleteFound(id) => IsSubSeq(IdsOf(data'.images), IdsOf(Base.images))
       /\ \A r \in BagToSet(crawls), dom \in AllDoms :
            CrawlRender(r, dom) /\ uuids' # uuids
            => IsSubSeq(IdsOf(Base.images), IdsOf(data'.images))
       /\ \A imageId \in FavoriteInputs, favorite \in BOOLEAN :
            SetFavorite(imageId, favorite) => data'.images = Base.images]_vars

\* C14: setFavorite(id, f) applied twice leaves the favorites that applying
\* it once leaves; setFavorite(id, true) on a favorite and setFavorite(id,
\* false) on an id that is no favorite leave the favorites as they were;
\* and the favorites never have an id twice.
C14_SetFavoriteIdempotent ==
    [][\A imageId \in FavoriteInputs, favorite \in BOOLEAN :
          SetFavorite(imageId, favorite)
          => LET before == Base.favorites
                 once == data'.favorites
                 twice == SetFavorites(once, imageId, favorite)
                 was == \E k \in 1..Len(before) : before[k] = imageId
             IN  /\ twice = once
                 /\ favorite = was => once = before
                 /\ \A j, k \in 1..Len(once) : once[j] = once[k] => j = k]_vars

\* A favorite set again, at its write.
C14_Witness ==
    /\ wcur.busy /\ wcur.waiters[1].op = "favorite"
    /\ wcur.waiters[1].body.favorite
    /\ file.exists /\ wcur.waiters[1].body.imageId \in SeqToSet(file.doc.favorites)
    /\ data.favorites = file.doc.favorites

\* The deletes that have called db.write() and wait for it.
PendingDeletes ==
    {w \in SeqToSet(wcur.waiters) \cup SeqToSet(wnext.waiters) : w.op = "delete"}

\* What a reader may see of the source a delete removes: the source gone and
\* no image linked to it, or the source listed and every image it had there
\* as it was.
SeenWhole(seen, w) ==
    IF \A k \in 1..Len(seen.sources) : seen.sources[k].id # w.body.id
    THEN \A k \in 1..Len(seen.images) : seen.images[k].sourceId # w.body.id
    ELSE \A k \in 1..Len(w.before.images) :
            w.before.images[k].sourceId = w.body.id
            => \E j \in 1..Len(seen.images) : seen.images[j] = w.before.images[k]

\* C15: whatever the interleaving of a deleteSource(id) with readers of the
\* sources and of the images, no reader answers from a catalog where the
\* source id is gone while an image still has sourceId = id, nor from one
\* where the images of id are removed or archived while the source is listed.
C15_ReadersSeeWholeDelete ==
    [][ListSources \/ ListImages
       => /\ Linked(data')
          /\ \A w \in PendingDeletes : SeenWhole(data', w)
          /\ res'.op = "sources" => res'.sources = data'.sources
          /\ res'.op = "images"
               => res'.images = [k \in 1..Len(data'.images) |->
                     [image |-> data'.images[k],
                      isFavorited |-> \E j \in 1..Len(data'.favorites) :
                                        data'.favorites[j] = data'.images[k].id]]]_vars

\* The images answered while a delete waits for its write: the reader sees
\* the images of the source the delete removes.
C15_Witness ==
    /\ res.op = "images"
    /\ \E w \in PendingDeletes :
          /\ \E k \in 1..Len(res.images) : res.images[k].image.sourceId = w.body.id
          /\ \E k \in 1..Len(data.sources) : data.sources[k].id = w.body.id

\* A crawl of the target of body is in flight: rendering, or at its write.
InFlightFor(body) ==
    \E r \in BagToSet(crawls) \cup PendingCrawls : r.body = body

\* C16: there is no single flight. A crawl that starts while a crawl of the
\* same target is in flight, the cache having no unexpired entry, misses the
\* cache and renders too; and the cache entry of a target is the bundle of
\* the crawl whose write completed last.
C16_NoSingleFlight ==
    [][/\ \A body \in Targets :
            /\ CrawlStart(body)
            /\ InFlightFor(body)
            /\ ~HoldsUnexpired(CacheKey(body))
            /\ PagesOf(body) # << >>
            => /\ BagCardinality(crawls') = BagCardinality(crawls) + 1
               /\ \E r \in BagToSet(crawls') :
                     r.body = body /\ r.pc = "render" /\ r.rendered = << >>
               /\ res'.status # 200
       /\ WriteDone /\ wcur.waiters[Len(wcur.waiters)].op = "crawl"
            => LET w == wcur.waiters[Len(wcur.waiters)]
               IN  /\ w.key \in DOMAIN cache'
                   /\ cache'[w.key] = [data |-> w.bundle, timestamp |-> now]]_vars

\* The interleaving: the persisted catalog has two sources with the same
\* url, each with its own image of the same address, and the cache entry of
\* the target is the bundle of the second.
C16_Witness ==
    /\ InFlight = 0 /\ file.exists
    /\ Len(file.doc.sources) = 2
    /\ file.doc.sources[1].url = file.doc.sources[2].url
    /\ file.doc.sources[1].id # file.doc.sources[2].id
    /\ \E j, k \in 1..Len(file.doc.images) :
          /\ file.doc.images[j].sourceId = file.doc.sources[1].id
          /\ file.doc.images[k].sourceId = file.doc.sources[2].id
          /\ file.doc.images[j].src = file.doc.images[k].src
    /\ \E key \in DOMAIN cache :
          /\ cache[key].data.newSource = file.doc.sources[2]
          /\ res.status = 201 /\ res.bundle = cache[key].data

\* C17: a mutation reads the whole catalog from the store, whatever write is
\* in flight, changes its part in memory and writes the whole catalog, and
\* nothing serializes two of them; so there is an interleaving of two in
\* which both report success and the persisted catalog lacks the effect of
\* one (the witness).
C17_ReadAllWriteAll ==
    [][/\ \A imageId \in FavoriteInputs, favorite \in BOOLEAN :
            SetFavorite(imageId, favorite) /\ file.exists
            => data'.sources = file.doc.sources /\ data'.images = file.doc.images
       /\ \A id \in SourceIds :
            DeleteFound(id) /\ file.exists => data'.favorites = file.doc.favorites
       /\ \A r \in BagToSet(crawls), dom \in AllDoms :
            CrawlRender(r, dom) /\ uuids' # uuids /\ file.exists
            => data'.favorites = file.doc.favorites
       /\ WriteDone => file'.exists /\ file'.doc = wcur.doc]_vars

\* A favorite answered 200 after a crawl answered 201 (it left its cache
\* entry, which a delete of its source would have removed), all writes done,
\* and the persisted catalog has not the source of the crawl.
C17_Witness ==
    /\ res.op = "favorite" /\ res.status = 200
    /\ InFlight = 0 /\ file.exists
    /\ \E key \in DOMAIN cache :
          /\ cache[key].data.newSource.url = key
          /\ ~puts[key].deleted
          /\ \A k \in 1..Len(file.doc.sources) :
                file.doc.sources[k].id # cache[key].data.newSource.id

\* C18: whatever the heights of the page, one that grows at every poll
\* included, the scroll loop ends: at the first poll that finds the height
\* the poll before it recorded, and otherwise when the count of 25 is
\* reached, so that it never polls more than 26 times.
C18_ScrollStopsAtFirstStablePoll ==
    /\ page.polls <= maxScrolls + 1
    /\ page.done
         => \/ page.polls >= 2 /\ page.height = page.prev
            \/ page.polls = maxScrolls + 1
    /\ ~page.done /\ page.polls >= 2 => page.height # page.prev
    /\ ~page.done => page.polls <= maxScrolls

-----------------------------------------------------------------------------
(* The second evaluate of scrapeUrl, on every list of img elements *)

ImgSet == {Img(src, w, h) : src \in {"i1", "i2"},
                            w \in {MinDimension, MinDimension + 1},
                            h \in {MinDimension, MinDimension + 1}}

ImgLists == UNION {[1..n -> ImgSet] : n \in 0..MaxImages}

InitFilter ==
    /\ file = NoSnap /\ data = DefaultData /\ cache = << >> /\ now = 0
    /\ crawls = EmptyBag /\ wcur = NoWrite /\ wnext = NoWrite
    /\ uuids = 0 /\ res = NoResp /\ puts = << >>
    /\ page \in {[NoPage EXCEPT !.images = images] : images \in ImgLists}

Evaluate ==
    /\ ~page.returned
    /\ page' = [page EXCEPT !.uniqueUrls = QualityFilter(page.images), !.returned = TRUE]
    /\ UNCHANGED server

NextFilter == Evaluate

SpecFilter == InitFilter /\ [][NextFilter]_vars

\* The place of the first element of images with address u that is more than
\* 100 pixels wide and high (0 when there is none).
FirstQualifying(images, u) ==
    LET places == {k \in 1..Len(images) : /\ images[k].src = u
                                           /\ images[k].naturalWidth > MinDimension
                                           /\ images[k].naturalHeight > MinDimension}
    IN  IF places = {} THEN 0 ELSE CHOOSE k \in places : \A j \in places : k <= j

\* C19: of every list of img elements the filter returns an address exactly
\* when some element with that address is more than the minimum wide and
\* more than the minimum high; it returns each such address once, in the
\* order of their first qualifying elements.
C19_FilterReturnsQualifyingOnce ==
    page.returned
    => LET urls == page.uniqueUrls
       IN  /\ \A u \in {"i1", "i2"} :
                 (\E k \in 1..Len(urls) : urls[k] = u)
                 <=> FirstQualifying(page.images, u) # 0
           /\ \A j, k \in 1..Len(urls) : urls[j] = urls[k] => j = k
           /\ \A j, k \in 1..Len(urls) :
                 j < k => FirstQualifying(page.images, urls[j])
                            < FirstQualifying(page.images, urls[k])

\* An address first on an element too small and then on one that qualifies,
\* after an element of the other address: it is returned second.
C19_Witness ==
    /\ page.returned
    /\ Len(page.images) = 3
    /\ page.images[1].src = "i1" /\ page.images[1].naturalHeight = MinDimension
    /\ page.images[3].src = "i1"
    /\ page.uniqueUrls = << "i2", "i1" >>

-----------------------------------------------------------------------------
\* C20: from one sync of a source to the next, the src values recorded for
\* the source lose no element; and a sync that finds no address the source
\* has not yet succeeds with newImages empty and makes no image.
C20_SyncMonotone ==
    [][\A id \in SourceIds, dom \in Doms :
          /\ Sync(id, dom)
          /\ \E k \in 1..Len(Base.sources) : Base.sources[k].id = id
          => /\ SrcsOf(Base, id) \subseteq SrcsOf(data', id)
             /\ SrcsOf(data', id) = SrcsOf(Base, id) \cup QualifyingUrls(dom)
             /\ QualifyingUrls(dom) \subseteq SrcsOf(Base, id)
                  => /\ res'.op = "sync" /\ res'.status = 200
                     /\ res'.bundle.newImages = << >>
                     /\ data'.images = Base.images
                     /\ UNCHANGED <<file, wcur, wnext>>]_vars

\* A source that a sync gave a second address, and whose next sync found
\* nothing new and answered so.
C20_Witness ==
    /\ res.op = "sync" /\ res.status = 200 /\ res.bundle.newImages = << >>
    /\ \E k \in 1..Len(data.sources) :
          /\ Cardinality(SrcsOf(data, data.sources[k].id)) = 2
          /\ \E key \in DOMAIN cache :
                /\ cache[key].data.newSource = data.sources[k]
                /\ Len(cache[key].data.newImages) = 1
          /\ \E i, j \in 1..Len(data.images) :
                /\ data.images[i].sourceId = data.sources[k].id
                /\ data.images[j].sourceId = data.sources[k].id
                /\ data.images[i].id # data.images[j].id
                /\ i < j

-----------------------------------------------------------------------------
\* C21: in the hard-delete variant, after a successful deleteSource(id) no
\* image with sourceId = id remains, favorited or not; the favorites have
\* none of the ids of the images removed; and every favorite that was not
\* the id of an image removed is still a favorite.
C21_HardDeletePrunes ==
    [][\A id \in SourceIds :
          HardDeleteFound(id)
          => LET removed == {Base.images[k].id : k \in ImagesOf(id)}
             IN  /\ \A k \in 1..Len(data'.images) : data'.images[k].sourceId # id
                 /\ \A k \in 1..Len(data'.favorites) : data'.favorites[k] \notin removed
                 /\ \A k \in 1..Len(Base.favorites) :
                       Base.favorites[k] \notin removed
                       => \E j \in 1..Len(data'.favorites) :
                            data'.favorites[j] = Base.favorites[k]]_vars

\* A hard delete at its write that removed a favorited image with its
\* favorite, another source being left with its images.
C21_Witness ==
    \E w \in PendingDeletes :
        /\ \E k \in 1..Len(w.before.images) :
              /\ w.before.images[k].sourceId = w.body.id
              /\ w.before.images[k].id \in SeqToSet(w.before.favorites)
        /\ data.favorites = << >>
        /\ Len(data.sources) = 1 /\ Len(data.images) > 0

-----------------------------------------------------------------------------
\* The bundle of a crawl is in a document: its source is one of the document's
\* sources and each of its images one of the document's images.
Persisted(bundle, doc) ==
    /\ bundle.newSource \in SeqToSet(doc.sources)
    /\ \A k \in 1..Len(bundle.newImages) : bundle.newImages[k] \in SeqToSet(doc.images)

\* The keys whose cache entry a step wrote.
Written == {k \in DOMAIN cache' : k \notin DOMAIN cache \/ cache'[k] # cache[k]}

\* C22: a crawl writes its cache entry only after its Catalog write has
\* succeeded. A step that answers a crawl with anything but 201 (a failed
\* store read or write, EmptyResult, a rendering error) leaves the cache
\* unchanged, and at every step that writes a cache entry the entry's bundle is
\* in the Catalog on disk.
C22_CacheEntryPersisted ==
    [][/\ (res'.op = "crawl" /\ res'.status \in {400, 404, 500}) => cache' = cache
       /\ \A k \in Written : file'.exists /\ Persisted(cache'[k].data, file'.doc)]_vars

-----------------------------------------------------------------------------
\* The URL a crawl of the target records in its source.
TargetUrl(body) == IF IsMultiPage(body) THEN body.urlPattern ELSE body.url

\* C23: the fingerprint is injective on crawl targets, so a crawl never returns
\* the cached bundle of a different target. A crawl answered from the cache
\* under its fingerprint shares that fingerprint with no other target, and the
\* bundle it returns is the bundle of a crawl of its own target.
C23_HitReturnsOwnTarget ==
    [][\A b1 \in FingerprintBodies :
          CrawlHit(b1) =>
              /\ \A b2 \in FingerprintBodies : CacheKey(b1) = CacheKey(b2) => b1 = b2
              /\ res'.bundle.newSource.url = TargetUrl(b1)]_vars

====
